---- MODULE Spec2Model ----
(***************************************************************************)
(* d1driver: get / create / update / remove render one SQL text with       *)
(* positional placeholders and a list of bound values, and hand it to the  *)
(* D1Database client (prepare, bind, all/run).                             *)
(*                                                                         *)
(* A text is a sequence of one-character strings, so that join, slice and  *)
(* the decimal rendering of a placeholder number act as they do on a       *)
(* JavaScript string.  A mapping (a JavaScript object) is the sequence of  *)
(* its entries in insertion order.                                         *)
(***************************************************************************)
EXTENDS Integers, Sequences, FiniteSets, TLC

\* ------------------------------------------------------------------ bounds
\* Longest entity / condition mapping of a rendered call (10 reaches ?10).
MaxEntries == 10
\* Most entries of one long mapping that are null or the timestamp sentinel.
MaxSpecial == 2
\* Longest condition mapping given to update beside its entity.
MaxConds == 2

\* ------------------------------------------------------------------- texts
SP == <<" ">>
COMMA == <<",">>
COMMA_SP == <<",", " ">>
QMARK == <<"?">>
EQ == <<"=">>
LPAREN == <<"(">>
RPAREN == <<")">>

\* enum SQLiteSyntax
SELECT == <<"S", "E", "L", "E", "C", "T">>
IS_NULL == <<"I", "S", " ", "N", "U", "L", "L">>
ALL == <<"*">>
FROM == <<"F", "R", "O", "M">>
WHERE == <<"W", "H", "E", "R", "E">>
AND == <<"A", "N", "D">>
INSERT_INTO == <<"I", "N", "S", "E", "R", "T", " ", "I", "N", "T", "O">>
DELETE == <<"D", "E", "L", "E", "T", "E">>
VALUES == <<"V", "A", "L", "U", "E", "S">>
UPDATE == <<"U", "P", "D", "A", "T", "E">>
SET == <<"S", "E", "T">>
RETURNING == <<"R", "E", "T", "U", "R", "N", "I", "N", "G">>
CURRENT_TIMESTAMP == <<"C", "U", "R", "R", "E", "N", "T", "_", "T", "I", "M", "E", "S", "T", "A", "M", "P">>

\* The value of SQLiteSyntax.CURRENT_TIMESTAMP as an entity value, and null.
CT == "CURRENT_TIMESTAMP"
NULL == "null"

Digit == <<"0", "1", "2", "3", "4", "5", "6", "7", "8", "9">>

\* `${n}` of a non-negative integer: its decimal digits.
RECURSIVE Str(_)
Str(n) == IF n < 10 THEN <<Digit[n + 1]>> ELSE Str(n \div 10) \o <<Digit[(n % 10) + 1]>>

\* Array.prototype.join
RECURSIVE join(_, _)
join(parts, sep) ==
    IF Len(parts) = 0 THEN <<>>
    ELSE IF Len(parts) = 1 THEN parts[1]
    ELSE parts[1] \o sep \o join(Tail(parts), sep)

\* String.prototype.slice(0, -2)
slice2(s) == IF Len(s) <= 2 THEN <<>> ELSE SubSeq(s, 1, Len(s) - 2)

\* String concatenation of a list of texts.
RECURSIVE concat(_)
concat(parts) == IF Len(parts) = 0 THEN <<>> ELSE parts[1] \o concat(Tail(parts))

\* ---------------------------------------------------------------- mappings
\* An optional object argument: def = FALSE is undefined; ents are the
\* entries [key, value] of Object.entries, in insertion order.
Undefined == [def |-> FALSE, ents |-> <<>>]
Obj(ents) == [def |-> TRUE, ents |-> ents]

\* The values of the entries, in order.
valuesOf(ents) == [i \in 1..Len(ents) |-> ents[i].value]

\* ` ${key} = ?${n} `
eqPlacement(key, n) == concat(<<SP, key, SP, EQ, SP, QMARK, Str(n), SP>>)

\* The loop `for [key, value] of Object.entries(conditions)` of update and
\* remove: every entry takes the next placeholder number, from `first` on.
conditionsPlacementFrom(ents, first) ==
    [i \in 1..Len(ents) |-> eqPlacement(ents[i].key, first + i - 1)]

\* `${ conditions ? WHERE + conditionsPlacement.join(' AND ') : '' }`
whereClause(conditions, placement) ==
    IF conditions.def THEN WHERE \o join(placement, concat(<<SP, AND, SP>>)) ELSE <<>>

\* ------------------------------------------------------------------ get
isNull(e) == e.value = NULL
\* (a get that binds a null like any other value)
notNullAlways(e) == TRUE
\* `if(value === null) { ...; continue; }`: the entries that reach the binding.
notNull(e) == e.value # NULL

getStatement(table, conditions, fields) ==
    LET ents == conditions.ents
        nulls == SelectSeq(ents, isNull)
        plain == SelectSeq(ents, notNull)
        nullConditions == [i \in 1..Len(nulls) |-> concat(<<SP, nulls[i].key, SP, IS_NULL, SP>>)]
        conditionsPlacement == conditionsPlacementFrom(plain, 1)
        bindingConditions == valuesOf(plain)
    IN  [sql |-> concat(<<
                SELECT, SP, (IF fields.def THEN fields.text ELSE ALL), SP,
                FROM, SP, table, SP,
                whereClause(conditions, conditionsPlacement), SP,
                (IF Len(nullConditions) = 1 THEN AND \o nullConditions[1] ELSE <<>>), SP,
                (IF Len(nullConditions) > 1
                    THEN AND \o join(nullConditions, concat(<<SP, AND, SP>>)) ELSE <<>>), SP>>),
         binds |-> bindingConditions,
         mode |-> "all"]

\* ---------------------------------------------------------------- create
RECURSIVE bindingPlacementOf(_)
bindingPlacementOf(n) ==
    IF n = 0 THEN <<>> ELSE bindingPlacementOf(n - 1) \o concat(<<QMARK, Str(n), COMMA_SP>>)

\* (a column list rendered even when there is no column)
columnListAlways(fieldsPlacement) == concat(<<LPAREN, join(fieldsPlacement, COMMA), RPAREN>>)
\* `${ fieldsPlacement.length>0 ? '('+fieldsPlacement.join(',')+')' : '' }`
columnList(fieldsPlacement) ==
    IF Len(fieldsPlacement) > 0
    THEN concat(<<LPAREN, join(fieldsPlacement, COMMA), RPAREN>>) ELSE <<>>

createStatement(table, entity) ==
    LET ents == entity.ents
        fieldsPlacement == [i \in 1..Len(ents) |-> ents[i].key]
        bindingValues == valuesOf(ents)
        bindingPlacement == bindingPlacementOf(Len(ents))
    IN  [sql |-> concat(<<
                INSERT_INTO, SP, table, SP,
                columnList(fieldsPlacement), SP,
                VALUES, SP, LPAREN, slice2(bindingPlacement), RPAREN, SP,
                RETURNING, SP, ALL, SP>>),
         binds |-> bindingValues,
         mode |-> "run"]

\* ---------------------------------------------------------------- update
isTimestamp(e) == e.value = CT
notTimestamp(e) == e.value # CT

\* `fieldsPlacement.join(', ').slice(0, -2)` and
\* `timestampUpdates.join(', ').slice(0, -2)`
joinedAssignments(placement) == slice2(join(placement, COMMA_SP))

updateStatement(table, entity, conditions) ==
    LET ents == entity.ents
        stamps == SelectSeq(ents, isTimestamp)
        plain == SelectSeq(ents, notTimestamp)
        timestampUpdates ==
            [i \in 1..Len(stamps) |->
                concat(<<SP, stamps[i].key, SP, EQ, SP, CURRENT_TIMESTAMP, SP>>)]
        fieldsPlacement == conditionsPlacementFrom(plain, 1)
        bindingValues == valuesOf(plain)
        fieldsCounter == Len(plain) + 1
        conditionsPlacement == conditionsPlacementFrom(conditions.ents, fieldsCounter)
        bindingConditions == valuesOf(conditions.ents)
        allBindings == bindingValues \o bindingConditions
    IN  [sql |-> concat(<<
                UPDATE, SP, table, SP, SET, SP,
                (IF Len(timestampUpdates) = 1 THEN timestampUpdates[1] \o COMMA_SP ELSE <<>>), SP,
                (IF Len(timestampUpdates) > 1 THEN joinedAssignments(timestampUpdates) ELSE <<>>), SP,
                (IF Len(fieldsPlacement) > 0 THEN joinedAssignments(fieldsPlacement) ELSE <<>>), SP,
                whereClause(conditions, conditionsPlacement), SP>>),
         binds |-> allBindings,
         mode |-> "run"]

\* ---------------------------------------------------------------- remove
\* The DELETE that remove renders (its hard path).
deleteStatement(table, conditions) ==
    LET conditionsPlacement == conditionsPlacementFrom(conditions.ents, 1)
        bindingConditions == valuesOf(conditions.ents)
    IN  [sql |-> concat(<<
                DELETE, SP, FROM, SP, table, SP,
                whereClause(conditions, conditionsPlacement), SP>>),
         binds |-> bindingConditions,
         mode |-> "run"]

\* ------------------------------------------------- reading a rendered text
isDigit(c) == \E d \in 1..10 : Digit[d] = c
digitVal(c) == (CHOOSE d \in 1..10 : Digit[d] = c) - 1

\* The positions lo..hi that a marking holds at, in increasing order.
RECURSIVE marked(_, _, _)
marked(mark, lo, hi) ==
    IF lo > hi THEN <<>>
    ELSE IF lo = hi THEN (IF mark[lo] THEN <<lo>> ELSE <<>>)
    ELSE marked(mark, lo, (lo + hi) \div 2) \o marked(mark, ((lo + hi) \div 2) + 1, hi)

\* The text split at spaces into its non-empty words.
Tokens(s) ==
    LET n == Len(s)
        starts == marked([i \in 1..n |-> s[i] # " " /\ (i = 1 \/ s[i - 1] = " ")], 1, n)
        ends == marked([i \in 1..n |-> s[i] # " " /\ (i = n \/ s[i + 1] = " ")], 1, n)
    IN  [k \in 1..Len(starts) |-> SubSeq(s, starts[k], ends[k])]

\* The placeholders of the text, left to right: the number N of each ?N, and 0
\* for a ? that no digit follows.
RECURSIVE numberFrom(_, _, _)
numberFrom(s, i, n) ==
    IF i <= Len(s) /\ isDigit(s[i]) THEN numberFrom(s, i + 1, 10 * n + digitVal(s[i])) ELSE n
Placeholders(s) ==
    LET marks == marked([i \in 1..Len(s) |-> s[i] = "?"], 1, Len(s))
    IN  [k \in 1..Len(marks) |-> numberFrom(s, marks[k] + 1, 0)]

\* The position of the first word w in a list of words, 0 when absent.
indexOf(toks, w) ==
    IF \E i \in 1..Len(toks) : toks[i] = w
    THEN CHOOSE i \in 1..Len(toks) : toks[i] = w /\ \A j \in 1..(i - 1) : toks[j] # w
    ELSE 0

\* The words after the first word w (none when w is absent), and before it.
wordsAfter(toks, w) ==
    IF indexOf(toks, w) = 0 THEN <<>> ELSE SubSeq(toks, indexOf(toks, w) + 1, Len(toks))
wordsBefore(toks, w) ==
    IF indexOf(toks, w) = 0 THEN toks ELSE SubSeq(toks, 1, indexOf(toks, w) - 1)

\* A list of words split at every word sep: the groups between the separators
\* (an empty group where two separators meet, or at either end).
Groups(toks, sep) ==
    LET cuts == <<0>> \o marked([i \in 1..Len(toks) |-> toks[i] = sep], 1, Len(toks))
                     \o <<Len(toks) + 1>>
    IN  IF toks = <<>> THEN <<>>
        ELSE [k \in 1..(Len(cuts) - 1) |-> SubSeq(toks, cuts[k] + 1, cuts[k + 1] - 1)]

\* --------------------------------------------------- the rendering calls
\* Column names: the i-th entry of a mapping has the i-th name.
Letter == <<"a", "b", "c", "d", "e", "f", "g", "h", "i", "j", "k", "l", "m", "n">>
KeyAt(i) == <<Letter[i]>>
CondLetter == <<"u", "v", "w", "x", "y", "z">>
CondKeyAt(i) == <<CondLetter[i]>>
\* Plain values, one per position, so that the order of a binding shows.
PlainAt(i) == <<"v1", "v2", "v3", "v4", "v5", "v6", "v7", "v8", "v9", "v10", "v11", "v12", "v13", "v14">>[i]

Specials == {NULL, CT}

\* The mappings of up to MaxEntries entries, at most MaxSpecial of them special.
EntriesOfLen(n) ==
    { [i \in 1..n |-> [key |-> KeyAt(i), value |-> IF k[i] = "plain" THEN PlainAt(i) ELSE k[i]]] :
        k \in { f \in [1..n -> {"plain"} \cup Specials] :
                  Cardinality({i \in 1..n : f[i] # "plain"}) <= MaxSpecial } }
Mappings == UNION { EntriesOfLen(n) : n \in 0..MaxEntries }

\* The condition mappings given to update: up to MaxConds entries, plain or null.
CondEntriesOfLen(n) ==
    { [i \in 1..n |-> [key |-> CondKeyAt(i), value |-> IF k[i] = "plain" THEN "c" ELSE k[i]]] :
        k \in [1..n -> {"plain", NULL}] }
UpdateConditions == {Undefined} \cup { Obj(e) : e \in UNION { CondEntriesOfLen(n) : n \in 0..MaxConds } }

\* The table name of a rendered call: a name, or the empty string.
TableNamed(empty) == IF empty THEN <<>> ELSE <<"t">>
NoFields == [def |-> FALSE, text |-> <<>>]
FieldArgs == { NoFields, [def |-> TRUE, text |-> <<"a", ",", "b">>] }
OptMappings == {Undefined} \cup { Obj(e) : e \in Mappings }

NoStatement == [sql |-> <<>>, binds |-> <<>>, mode |-> "none"]
NoCall == [op |-> "none", table |-> <<>>, entity |-> Undefined, conditions |-> Undefined,
           fields |-> NoFields]

\* ------------------------------------------------------ the executing calls
\* The table of the executing calls: rows [id, deletedAt].  A table without
\* the deletedAt column gives rows whose deletedAt is undefined.
ID == <<"i", "d">>
DELETED_AT == <<"d", "e", "l", "e", "t", "e", "d", "A", "t">>
UNDEF == "undefined"
TS == "ts"
Ids == {"v1", "v2"}
Errors == {"D1_ERROR", "D1_TYPE_ERROR"}
\* The concurrent invocations: each task makes one call.
Tasks == {1, 2}
TABLE == <<"t">>

RowsWith(stamps) == { [id |-> i, deletedAt |-> d] : i \in Ids, d \in stamps }
DBs == { db \in (SUBSET RowsWith({NULL, TS})) \cup (SUBSET RowsWith({UNDEF})) :
            \A r1, r2 \in db : r1.id = r2.id => r1 = r2 }

\* ---- the D1Database client (external): it reads the statement it is given.
colOf(row, col) ==
    IF col = ID THEN row.id ELSE IF col = DELETED_AT THEN row.deletedAt ELSE UNDEF

\* The number bound to each placeholder, left to right: N for ?N, and for a
\* bare ? one more than the largest number assigned before it.
RECURSIVE resolveFrom(_, _, _, _)
resolveFrom(phs, i, top, acc) ==
    IF i > Len(phs) THEN acc
    ELSE LET n == IF phs[i] = 0 THEN top + 1 ELSE phs[i]
         IN  resolveFrom(phs, i + 1, IF n > top THEN n ELSE top, Append(acc, n))
resolved(sql) == resolveFrom(Placeholders(sql), 1, 0, <<>>)

isPlaceholderWord(w) == Len(w) > 0 /\ w[1] = "?"

\* The value bound to the placeholder that is word q of the statement's words.
boundOfWord(stmt, toks, q) ==
    LET k == Cardinality({j \in 1..q : isPlaceholderWord(toks[j])})
        n == resolved(stmt.sql)[k]
    IN  IF n \in 1..Len(stmt.binds) THEN stmt.binds[n] ELSE UNDEF

\* The clauses `col = ?N` and `col IS NULL` among the words from position lo to hi.
eqClauses(stmt, toks, lo, hi) ==
    { [col |-> toks[q - 2], value |-> boundOfWord(stmt, toks, q)] :
        q \in { q \in (lo + 2)..hi : toks[q - 1] = EQ /\ isPlaceholderWord(toks[q]) } }
nullClauses(toks, lo, hi) ==
    { toks[q - 2] : q \in { q \in (lo + 2)..hi : toks[q - 1] = <<"I", "S">> /\ toks[q] = <<"N", "U", "L", "L">> } }
stampClauses(toks, lo, hi) ==
    { toks[q - 2] : q \in { q \in (lo + 2)..hi : toks[q - 1] = EQ /\ toks[q] = CURRENT_TIMESTAMP } }

whereStart(toks) == IF indexOf(toks, WHERE) = 0 THEN Len(toks) + 1 ELSE indexOf(toks, WHERE) + 1

\* The rows the statement's WHERE clause selects (every row without one).
matching(stmt, db) ==
    LET toks == Tokens(stmt.sql)
        lo == whereStart(toks)
    IN  { r \in db :
            /\ \A c \in eqClauses(stmt, toks, lo, Len(toks)) :
                    c.value # NULL /\ colOf(r, c.col) = c.value
            /\ \A col \in nullClauses(toks, lo, Len(toks)) : colOf(r, col) = NULL }

\* A set of rows as the list the client returns, in id order.
RECURSIVE rowList(_)
rowList(rows) ==
    IF rows = {} THEN <<>>
    ELSE LET first == CHOOSE r \in rows : \A o \in rows : o.id = r.id \/ r.id = "v1"
         IN  <<first>> \o rowList(rows \ {first})

kindOf(stmt) == LET toks == Tokens(stmt.sql) IN IF Len(toks) = 0 THEN <<>> ELSE toks[1]

\* The row after the SET clause of an UPDATE is applied to it.
updatedRow(stmt, r) ==
    LET toks == Tokens(stmt.sql)
        lo == indexOf(toks, SET) + 1
        hi == IF indexOf(toks, WHERE) = 0 THEN Len(toks) ELSE indexOf(toks, WHERE) - 1
        sets == eqClauses(stmt, toks, lo, hi)
        stamps == stampClauses(toks, lo, hi)
        hasStamp == r.deletedAt # UNDEF
    IN  [id |-> IF \E c \in sets : c.col = ID
                  THEN (CHOOSE c \in sets : c.col = ID).value ELSE r.id,
         deletedAt |->
            IF hasStamp /\ DELETED_AT \in stamps THEN TS
            ELSE IF hasStamp /\ \E c \in sets : c.col = DELETED_AT
                 THEN (CHOOSE c \in sets : c.col = DELETED_AT).value
            ELSE r.deletedAt]

\* The row an INSERT adds: the column list `(c1,c2)` is word 4, and the k-th
\* column takes the k-th placeholder of VALUES.
insertedRows(stmt, db) ==
    LET toks == Tokens(stmt.sql)
        cols == IF Len(toks) >= 4 /\ Len(toks[4]) > 2 /\ toks[4][1] = "("
                THEN Groups(SubSeq(toks[4], 2, Len(toks[4]) - 1), ",") ELSE <<>>
        idAt == { k \in 1..Len(cols) : cols[k] = ID }
        hasStamp == \A r \in db : r.deletedAt # UNDEF
    IN  { [id |-> stmt.binds[resolved(stmt.sql)[k]],
           deletedAt |-> IF hasStamp THEN NULL ELSE UNDEF] : k \in idAt }

INSERT == <<"I", "N", "S", "E", "R", "T">>

\* The statement carried out on the table: whether the client can carry it
\* out (an INSERT needs a fresh id, an UPDATE must leave the ids distinct),
\* the table after it, the rows of its D1Result (those of a SELECT or of
\* RETURNING *) and the ids of the rows it changed.
execute(stmt, table) ==
    LET kind == kindOf(stmt)
        hit == matching(stmt, table)
        added == insertedRows(stmt, table)
        updated == (table \ hit) \cup { updatedRow(stmt, r) : r \in hit }
    IN  CASE kind = INSERT ->
                [can |-> added # {} /\ \A n \in added : n.id \in Ids /\ \A r \in table : r.id # n.id,
                 after |-> table \cup added,
                 results |-> rowList(added),
                 changed |-> { r.id : r \in added }]
          [] kind = UPDATE ->
                [can |-> Cardinality(updated) = Cardinality(table)
                            /\ \A r1, r2 \in updated : r1.id = r2.id => r1 = r2,
                 after |-> updated,
                 results |-> <<>>,
                 changed |-> { r.id : r \in hit }]
          [] kind = DELETE ->
                [can |-> TRUE, after |-> table \ hit, results |-> <<>>,
                 changed |-> { r.id : r \in hit }]
          [] kind = SELECT ->
                [can |-> TRUE, after |-> table, results |-> rowList(hit), changed |-> {}]
          [] OTHER ->
                [can |-> FALSE, after |-> table, results |-> <<>>, changed |-> {}]

NoReply == [kind |-> "none", results |-> <<>>, changed |-> {}, error |-> "", of |-> 0]
NoOutcome == [kind |-> "none", results |-> <<>>, changed |-> {}, error |-> "", of |-> 0]
NoExecCall == [op |-> "none", conditions |-> Undefined, entity |-> Undefined, softRemove |-> FALSE]

\* ---- the arguments of the executing calls
idIs(v) == Obj(<<[key |-> ID, value |-> v]>>)
ExecConditions == { Undefined, idIs("v1"), Obj(<<[key |-> DELETED_AT, value |-> NULL]>>) }
CreateEntities == { idIs("v1"), idIs("v2"), Obj(<<>>) }
UpdateEntities == { Obj(<<[key |-> DELETED_AT, value |-> CT]>>), Obj(<<[key |-> DELETED_AT, value |-> NULL]>>) }

VARIABLES rCall, rStmt, db, pc, call, phase, issued, outcome

vars == <<rCall, rStmt, db, pc, call, phase, issued, outcome>>
renderVars == <<rCall, rStmt>>
execVars == <<db, pc, call, phase, issued, outcome>>

Idle ==
    /\ pc = [t \in Tasks |-> "idle"]
    /\ call = [t \in Tasks |-> NoExecCall]
    /\ phase = [t \in Tasks |-> "final"]
    /\ issued = [t \in Tasks |-> <<>>]
    /\ outcome = [t \in Tasks |-> NoOutcome]

\* ---- SpecRender: one call, rendered from a mapping of any length
InitRender == rCall = NoCall /\ rStmt = NoStatement /\ db = {} /\ Idle

renderGet ==
    /\ rCall.op = "none"
    /\ \E empty \in BOOLEAN, conditions \in OptMappings, fields \in FieldArgs :
        /\ rCall' = [NoCall EXCEPT !.op = "get", !.table = TableNamed(empty), !.conditions = conditions,
                                   !.fields = fields]
        /\ rStmt' = getStatement(TableNamed(empty), conditions, fields)
    /\ UNCHANGED execVars

renderCreate ==
    /\ rCall.op = "none"
    /\ \E empty \in BOOLEAN, entity \in Mappings :
        /\ rCall' = [NoCall EXCEPT !.op = "create", !.table = TableNamed(empty), !.entity = Obj(entity)]
        /\ rStmt' = createStatement(TableNamed(empty), Obj(entity))
    /\ UNCHANGED execVars

renderUpdate ==
    /\ rCall.op = "none"
    /\ \E empty \in BOOLEAN, entity \in Mappings, conditions \in UpdateConditions :
        /\ rCall' = [NoCall EXCEPT !.op = "update", !.table = TableNamed(empty), !.entity = Obj(entity),
                                   !.conditions = conditions]
        /\ rStmt' = updateStatement(TableNamed(empty), Obj(entity), conditions)
    /\ UNCHANGED execVars

renderRemove ==
    /\ rCall.op = "none"
    /\ \E empty \in BOOLEAN, conditions \in OptMappings :
        /\ rCall' = [NoCall EXCEPT !.op = "remove", !.table = TableNamed(empty), !.conditions = conditions]
        /\ rStmt' = deleteStatement(TableNamed(empty), conditions)
    /\ UNCHANGED execVars

NextRender == renderGet \/ renderCreate \/ renderUpdate \/ renderRemove

SpecRender == InitRender /\ [][NextRender]_vars

\* ---- Spec: two tasks call into one client
Init == rCall = NoCall /\ rStmt = NoStatement /\ db \in DBs /\ Idle

\* DB.prepare(sql).bind(...values).all() / .run(): the statement goes to the
\* client and the call suspends.
begin(t, c, stmt, ph) ==
    /\ pc[t] = "idle"
    /\ call' = [call EXCEPT ![t] = c]
    /\ issued' = [issued EXCEPT ![t] = <<[stmt |-> stmt, reply |-> NoReply]>>]
    /\ phase' = [phase EXCEPT ![t] = ph]
    /\ pc' = [pc EXCEPT ![t] = "wait"]
    /\ outcome' = [outcome EXCEPT ![t] = NoOutcome]
    /\ UNCHANGED <<db, renderVars>>

get(t) ==
    \E conditions \in ExecConditions :
        begin(t, [NoExecCall EXCEPT !.op = "get", !.conditions = conditions],
              getStatement(TABLE, conditions, NoFields), "final")

create(t) ==
    \E entity \in CreateEntities :
        begin(t, [NoExecCall EXCEPT !.op = "create", !.entity = entity],
              createStatement(TABLE, entity), "final")

update(t) ==
    \E entity \in UpdateEntities, conditions \in ExecConditions :
        begin(t, [NoExecCall EXCEPT !.op = "update", !.entity = entity, !.conditions = conditions],
              updateStatement(TABLE, entity, conditions), "final")

\* (a remove that never looks before it deletes)
fetchesNever(softRemove) == FALSE
\* softRemove === true: remove awaits get before it renders its own statement.
fetchesFirst(softRemove) == softRemove = TRUE

remove(t) ==
    \E conditions \in ExecConditions, softRemove \in BOOLEAN :
        begin(t, [NoExecCall EXCEPT !.op = "remove", !.conditions = conditions, !.softRemove = softRemove],
              IF fetchesFirst(softRemove) THEN getStatement(TABLE, conditions, NoFields)
                                          ELSE deleteStatement(TABLE, conditions),
              IF fetchesFirst(softRemove) THEN "fetch" ELSE "final")

\* `return DB.prepare(..).bind(..).all()/.run()`: the promise of the call is
\* the client's, so the call ends as its last statement does.
settledAs(reply) == reply

\* The client settles the statement in flight of task t with reply r.  A call
\* in its last statement ends with it; remove awaiting its get resumes later.
settles(t, r) ==
    LET reply == [r EXCEPT !.of = Len(issued[t])]
    IN  /\ issued' = [issued EXCEPT ![t][Len(issued[t])].reply = reply]
        /\ IF phase[t] = "final"
           THEN /\ outcome' = [outcome EXCEPT ![t] = settledAs(reply)]
                /\ pc' = [pc EXCEPT ![t] = "done"]
           ELSE /\ pc' = [pc EXCEPT ![t] = "settled"]
                /\ UNCHANGED outcome

\* The client carries the statement out and resolves.
clientResolve(t) ==
    /\ pc[t] = "wait"
    /\ LET done == execute(issued[t][Len(issued[t])].stmt, db)
       IN  /\ done.can
           /\ db' = done.after
           /\ settles(t, [NoReply EXCEPT !.kind = "ok", !.results = done.results,
                                         !.changed = done.changed])
    /\ UNCHANGED <<call, phase, renderVars>>

\* The client raises an error (any statement may fail).
clientReject(t) ==
    /\ pc[t] = "wait"
    /\ \E e \in Errors : settles(t, [NoReply EXCEPT !.kind = "error", !.error = e])
    /\ UNCHANGED <<db, call, phase, renderVars>>

\* (a soft path taken for the first of several matches)
softEligibleFirst(existingEntity) == Len(existingEntity) >= 1 /\ existingEntity[1].deletedAt = NULL
\* existingEntity.length === 1 && existingEntity[0].deletedAt === null
softEligible(existingEntity) == Len(existingEntity) = 1 /\ existingEntity[1].deletedAt = NULL

\* The statement remove issues once its get has resolved.
removeSecond(c, existingEntity) ==
    IF softEligible(existingEntity)
    THEN updateStatement(TABLE, Obj(<<[key |-> DELETED_AT, value |-> CT]>>), c.conditions)
    ELSE deleteStatement(TABLE, c.conditions)

\* (a remove that goes on after its get has failed)
removeSwallows(reply) == FALSE
\* An error of the awaited get rejects remove.
removeRethrows(reply) == reply.kind = "error"

\* remove resumes after `await get(...)`.
removeAfterGet(t) ==
    /\ pc[t] = "settled" /\ phase[t] = "fetch"
    /\ LET reply == issued[t][Len(issued[t])].reply
       IN  IF removeRethrows(reply)
           THEN /\ outcome' = [outcome EXCEPT ![t] = reply]
                /\ pc' = [pc EXCEPT ![t] = "done"]
                /\ UNCHANGED <<issued, phase>>
           ELSE /\ issued' = [issued EXCEPT ![t] =
                        Append(@, [stmt |-> removeSecond(call[t], reply.results), reply |-> NoReply])]
                /\ phase' = [phase EXCEPT ![t] = "final"]
                /\ pc' = [pc EXCEPT ![t] = "wait"]
                /\ UNCHANGED outcome
    /\ UNCHANGED <<db, call, renderVars>>

Next ==
    \E t \in Tasks :
        \/ get(t)
        \/ create(t)
        \/ update(t)
        \/ remove(t)
        \/ clientResolve(t)
        \/ clientReject(t)
        \/ removeAfterGet(t)

Spec == Init /\ [][Next]_vars
\* ======================================================================
\* Properties
\* ======================================================================
OneTo(n) == [i \in 1..n |-> i]
eqWords(key, n) == <<key, EQ, QMARK \o Str(n)>>
nullWords(key) == <<key, <<"I", "S">>, <<"N", "U", "L", "L">>>>
stampWords(key) == <<key, EQ, CURRENT_TIMESTAMP>>
RECURSIVE joinWords(_, _)
joinWords(groups, sep) ==
    IF Len(groups) = 0 THEN <<>>
    ELSE IF Len(groups) = 1 THEN groups[1]
    ELSE groups[1] \o <<sep>> \o joinWords(Tail(groups), sep)
seqToSet(q) == { q[i] : i \in 1..Len(q) }
countWord(toks, w) == Cardinality({ i \in 1..Len(toks) : toks[i] = w })
tableWords(table) == IF table = <<>> THEN <<>> ELSE <<table>>

rPlainConds == SelectSeq(rCall.conditions.ents, LAMBDA e : e.value # NULL)
rNullConds == SelectSeq(rCall.conditions.ents, LAMBDA e : e.value = NULL)
rPlainEntity == SelectSeq(rCall.entity.ents, LAMBDA e : e.value # CT)

\* C2: in every rendered statement the placeholders of the text are exactly
\* ?1..?len, left to right, len being the number of bound values.
C2_PlaceholdersMatchBinds ==
    rCall.op # "none" => Placeholders(rStmt.sql) = OneTo(Len(rStmt.binds))

\* C3: update binds the non-sentinel entity values and then the condition
\* values, never a sentinel, and numbers the placeholders ?1..?K for the
\* entity and ?K+1..?K+C for the conditions.
C3_UpdateNumbering ==
    rCall.op = "update" =>
        LET K == Len(rPlainEntity)
            conds == rCall.conditions.ents
        IN  /\ rStmt.binds = valuesOf(rPlainEntity) \o valuesOf(conds)
            /\ \A i \in 1..Len(rStmt.binds) : i <= K => rStmt.binds[i] # CT
            /\ Placeholders(rStmt.sql) = OneTo(K + Len(conds))
            /\ wordsAfter(Tokens(rStmt.sql), WHERE) =
                    joinWords([j \in 1..Len(conds) |-> eqWords(conds[j].key, K + j)], AND)

C5_GetNullClauses ==
    (rCall.op = "get" /\ rCall.conditions.def) =>
        /\ wordsAfter(Tokens(rStmt.sql), WHERE) =
                joinWords([i \in 1..Len(rPlainConds) |-> eqWords(rPlainConds[i].key, i)]
                            \o [i \in 1..Len(rNullConds) |-> nullWords(rNullConds[i].key)], AND)
        /\ rStmt.binds = valuesOf(rPlainConds)

\* The calls that the validation of C8 is about.
invalidArgument ==
    \/ rCall.op = "create" /\ Len(rCall.entity.ents) = 0
    \/ rCall.op # "none" /\ rCall.table = <<>>

\* C8 (as stated): create with an empty entity, and any call with an empty
\* table name, ends before a statement is rendered: the client is not called.
C8_FailsFast == invalidArgument => rStmt.mode = "none"

opKeyword ==
    CASE rCall.op = "get" -> <<SELECT>>
      [] rCall.op = "create" -> <<INSERT, <<"I", "N", "T", "O">>>>
      [] rCall.op = "update" -> <<UPDATE>>
      [] rCall.op = "remove" -> <<DELETE, FROM>>
      [] OTHER -> <<>>

\* C8 (amended): no argument is validated.  create with an empty entity hands
\* the client `INSERT INTO <table> VALUES () RETURNING *` with no bound value,
\* and a call with an empty table name hands the client its statement with
\* nothing where the table name goes.
C8_NoValidation ==
    invalidArgument =>
        LET toks == Tokens(rStmt.sql)
            k == Len(opKeyword)
        IN  /\ rStmt.mode \in {"all", "run"}
            /\ SubSeq(toks, 1, k) = opKeyword
            /\ (rCall.op = "create" /\ Len(rCall.entity.ents) = 0) =>
                    /\ toks = opKeyword \o tableWords(rCall.table)
                                \o <<VALUES, <<"(", ")">>, RETURNING, ALL>>
                    /\ rStmt.binds = <<>>
            /\ (rCall.op \in {"update", "remove"} /\ rCall.table = <<>>) =>
                    (Len(toks) = k \/ toks[k + 1] \in {SET, WHERE})

\* C8 witness: create was called with an empty entity and a table name.
C8_Witness ==
    rCall.op = "create" /\ Len(rCall.entity.ents) = 0 /\ rCall.table # <<>> /\ rStmt.mode = "run"

\* The assignment each entity entry should give: the j-th non-sentinel entry
\* `column = ?j`, a sentinel entry `column = CURRENT_TIMESTAMP`.
expectedAssignments ==
    LET ents == rCall.entity.ents
    IN  { IF ents[i].value = CT THEN stampWords(ents[i].key)
          ELSE eqWords(ents[i].key, Cardinality({ j \in 1..i : ents[j].value # CT })) :
            i \in 1..Len(ents) }

\* C9: the SET clause of update with a non-empty entity is one complete
\* assignment per entity entry, one comma between two assignments and none
\* before the first or after the last.
C9_SetClause ==
    (rCall.op = "update" /\ Len(rCall.entity.ents) > 0) =>
        LET assignments == Groups(wordsBefore(wordsAfter(Tokens(rStmt.sql), SET), WHERE), COMMA)
        IN  /\ Len(assignments) = Len(rCall.entity.ents)
            /\ seqToSet(assignments) = expectedAssignments

\* ---- the executing calls
lastOf(t) == issued[t][Len(issued[t])]
isRemove(t) == call[t].op = "remove"
fetchFailed(t) == call[t].softRemove /\ issued[t][1].reply.kind = "error"

\* The statement is the soft UPDATE: deletedAt set to CURRENT_TIMESTAMP where
\* the conditions hold, the condition values bound.
isSoftUpdate(stmt, conditions) ==
    LET toks == Tokens(stmt.sql)
        ents == conditions.ents
    IN  /\ Len(toks) >= 6
        /\ SubSeq(toks, 1, 6) = <<UPDATE, TABLE, SET>> \o stampWords(DELETED_AT)
        /\ countWord(toks, DELETE) = 0
        /\ wordsAfter(toks, WHERE) = joinWords([i \in 1..Len(ents) |-> eqWords(ents[i].key, i)], AND)
        /\ (conditions.def <=> countWord(toks, WHERE) = 1)
        /\ stmt.binds = valuesOf(ents)

\* The statement is `DELETE FROM table WHERE ...`, the conditions ?1..?N.
isHardDelete(stmt, conditions) ==
    LET toks == Tokens(stmt.sql)
        ents == conditions.ents
    IN  /\ toks = <<DELETE, FROM, TABLE>>
                    \o (IF conditions.def THEN <<WHERE>> ELSE <<>>)
                    \o joinWords([i \in 1..Len(ents) |-> eqWords(ents[i].key, i)], AND)
        /\ Placeholders(stmt.sql) = OneTo(Len(ents))
        /\ stmt.binds = valuesOf(ents)

mutating(t) == SelectSeq(issued[t], LAMBDA e : kindOf(e.stmt) # SELECT)

C6_ErrorsPassThrough ==
    \A t \in Tasks : \A i \in 1..Len(issued[t]) :
        issued[t][i].reply.kind = "error" =>
            /\ i = Len(issued[t])
            /\ pc[t] \in {"settled", "done"}
            /\ pc[t] = "done" =>
                    /\ outcome[t].kind = "error"
                    /\ outcome[t].error = issued[t][i].reply.error
                    /\ outcome[t] = issued[t][i].reply

\* C6 witness: the fetch of a soft remove failed and the remove has ended.
C6_Witness ==
    \E t \in Tasks :
        /\ isRemove(t) /\ call[t].softRemove /\ pc[t] = "done"
        /\ Len(issued[t]) = 1 /\ outcome[t].kind = "error"

softUpdated(t) ==
    UNION { issued[t][i].reply.changed :
                i \in { i \in 1..Len(issued[t]) :
                            kindOf(issued[t][i].stmt) = UPDATE /\ issued[t][i].reply.kind = "ok" } }

====
